---------------------------- MODULE Spec2Model ----------------------------
(***************************************************************************)
(* Media resolution of NFT records: the Ethereum adapter                   *)
(* (assetToCollectible), the Solana adapters (Metaplex, Helius, Star       *)
(* Atlas), the gateway rewrite of ipfs:// and ar:// URLs, and the Helius   *)
(* blocklist predicate.                                                    *)
(*                                                                         *)
(* JavaScript values are encoded as follows.  A string is the sequence of  *)
(* its characters (one-character TLA+ strings), so that startsWith,        *)
(* endsWith, substring, replace, includes and toLowerCase are computed     *)
(* character by character.  undefined and null are two distinguished       *)
(* one-element tuples, which are no string.  An object that is no string   *)
(* is a tuple whose first element is the tag "object".                     *)
(***************************************************************************)
EXTENDS Integers, Sequences, FiniteSets, TLC

Undefined == <<"undefined">>
Null == <<"null">>

Obj(name) == <<"object", name>>

IsObject(v) == Len(v) > 0 /\ v[1] = "object"

IsNullish(v) == v = Undefined \/ v = Null

IsString(v) == ~IsNullish(v) /\ ~IsObject(v)

\* JavaScript truthiness of a string-or-nullish value: '' is falsy.
Truthy(v) == ~IsNullish(v) /\ v # <<>>

\* typeof v
TypeOf(v) ==
    IF v = Undefined THEN "undefined"
    ELSE IF v = Null \/ IsObject(v) THEN "object"
    ELSE "string"

\* a ?? b
Coalesce(a, b) == IF IsNullish(a) THEN b ELSE a

----------------------------------------------------------------------------
(* String.prototype operations *)

StartsWith(s, p) == Len(s) >= Len(p) /\ SubSeq(s, 1, Len(p)) = p

EndsWith(s, e) == Len(s) >= Len(e) /\ SubSeq(s, Len(s) - Len(e) + 1, Len(s)) = e

\* The 1-based positions at which p occurs in s.
Occurrences(s, p) ==
    {i \in 1..(Len(s) - Len(p) + 1) : SubSeq(s, i, i + Len(p) - 1) = p}

Includes(s, p) == Occurrences(s, p) # {}

MinOf(S) == CHOOSE m \in S : \A k \in S : m <= k

\* s.indexOf(p), 0-based, -1 when p does not occur
IndexOf(s, p) == IF Includes(s, p) THEN MinOf(Occurrences(s, p)) - 1 ELSE -1

\* s.substring(n)
Substring(s, n) == IF n >= Len(s) THEN <<>> ELSE SubSeq(s, n + 1, Len(s))

\* s.replace(p, r) with a string pattern: the first occurrence only
Replace(s, p, r) ==
    IF ~Includes(s, p) THEN s
    ELSE LET i == MinOf(Occurrences(s, p))
         IN  SubSeq(s, 1, i - 1) \o r \o SubSeq(s, i + Len(p), Len(s))

UpperCase ==
    <<"A","B","C","D","E","F","G","H","I","J","K","L","M","N","O","P","Q","R","S","T","U","V","W","X","Y","Z">>

LowerCase ==
    <<"a","b","c","d","e","f","g","h","i","j","k","l","m","n","o","p","q","r","s","t","u","v","w","x","y","z">>

LowerChar(c) ==
    IF \E i \in 1..Len(UpperCase) : UpperCase[i] = c
    THEN LowerCase[CHOOSE i \in 1..Len(UpperCase) : UpperCase[i] = c]
    ELSE c

ToLowerCase(s) == [i \in 1..Len(s) |-> LowerChar(s[i])]

\* url?.endsWith(e): undefined (falsy) on a nullish receiver
OptEndsWith(v, e) == ~IsNullish(v) /\ EndsWith(v, e)

OptStartsWith(v, p) == ~IsNullish(v) /\ StartsWith(v, p)

\* exts.some((ext) => url.endsWith(ext))
SomeExt(exts, url) == \E k \in 1..Len(exts) : EndsWith(url, exts[k])

\* array.find(pred): the first element satisfying pred, else undefined
Find(arr, P(_)) ==
    IF \E i \in 1..Len(arr) : P(arr[i])
    THEN arr[MinOf({i \in 1..Len(arr) : P(arr[i])})]
    ELSE Undefined

----------------------------------------------------------------------------
(* utils/types.ts *)

\* The members the enum declares.
CollectibleMediaTypeMembers == {"IMAGE", "VIDEO", "GIF", "THREE_D"}

\* CollectibleMediaType.<member>: a property read of the enum object, which
\* is undefined for a member the enum does not declare.
CollectibleMediaType(member) ==
    IF member \in CollectibleMediaTypeMembers THEN member ELSE "undefined"

----------------------------------------------------------------------------
(* eth/helpers.ts: constants *)

OPENSEA_AUDIO_EXTENSIONS ==
    << <<"m","p","3">>,
       <<"w","a","v">>,
       <<"o","g","a">> >>

OPENSEA_VIDEO_EXTENSIONS ==
    << <<"g","l","t","f">>,
       <<"g","l","b">>,
       <<"w","e","b","m">>,
       <<"m","p","4">>,
       <<"m","4","v">>,
       <<"o","g","v">>,
       <<"o","g","g">>,
       <<"m","o","v">> >>

SUPPORTED_VIDEO_EXTENSIONS ==
    << <<"w","e","b","m">>,
       <<"m","p","4">>,
       <<"o","g","v">>,
       <<"o","g","g">>,
       <<"m","o","v">> >>

SUPPORTED_3D_EXTENSIONS ==
    << <<"g","l","t","f">>,
       <<"g","l","b">> >>

NON_IMAGE_EXTENSIONS == OPENSEA_VIDEO_EXTENSIONS \o OPENSEA_AUDIO_EXTENSIONS

DotGif == <<".","g","i","f">>   \* '.gif'

ipfsProtocolPrefix == <<"i","p","f","s",":","/","/">>   \* 'ipfs://'

IpfsSegment == <<"i","p","f","s","/">>   \* 'ipfs/'

IpfsGateway ==   \* 'https://ipfs.io/ipfs/'
    <<"h","t","t","p","s",":","/","/","i","p","f","s",".","i","o","/","i","p","f","s","/">>

arweavePrefix == <<"a","r",":","/","/">>   \* 'ar://'

ArweaveGateway ==   \* 'https://arweave.net/'
    <<"h","t","t","p","s",":","/","/","a","r","w","e","a","v","e",".","n","e","t","/">>

\* The imported placeholder asset: some fixed URL string.
placeholderCoverArt ==   \* '/placeholder.webp'
    <<"/","p","l","a","c","e","h","o","l","d","e","r",".","w","e","b","p">>

ANMF == <<"A","N","M","F">>

S_gif == <<"g","i","f">>
S_video == <<"v","i","d","e","o">>
S_audio == <<"a","u","d","i","o">>
S_webp == <<"w","e","b","p">>
S_image == <<"i","m","a","g","e">>
S_glb == <<"g","l","b">>
S_vr == <<"v","r">>

----------------------------------------------------------------------------
(* eth/helpers.ts: predicates on an asset *)

imageUrlsOf(asset) ==
    << asset.image, asset.image_url, asset.image_original_url,
       asset.image_preview_url, asset.image_thumbnail_url >>

\* [animation_url, animation_original_url, ...imageUrls]
mediaUrlsOf(asset) ==
    << asset.animation_url, asset.animation_original_url >> \o imageUrlsOf(asset)

\* url && NON_IMAGE_EXTENSIONS.every((ext) => !url.endsWith(ext))
IsPlainImageUrl(url) == Truthy(url) /\ ~SomeExt(NON_IMAGE_EXTENSIONS, url)

isAssetImage(asset) ==
    \E i \in 1..5 : IsPlainImageUrl(imageUrlsOf(asset)[i])

\* The list is [animation_url || '', animation_original_url || '', image_url,
\* image, ...]; its order does not matter to some().
areUrlExtensionsSupportedForType(asset, extensions) ==
    \E i \in 1..7 :
        LET url == mediaUrlsOf(asset)[i]
        IN  Truthy(url) /\ SomeExt(extensions, url)

isAssetVideo(asset) ==
    areUrlExtensionsSupportedForType(asset, SUPPORTED_VIDEO_EXTENSIONS)

isAssetThreeDAndIncludesImage(asset) ==
    /\ areUrlExtensionsSupportedForType(asset, SUPPORTED_3D_EXTENSIONS)
    /\ isAssetImage(asset)

isAssetGif(asset) ==
    \E i \in 1..5 : OptEndsWith(imageUrlsOf(asset)[i], DotGif)

isAssetValid(asset) ==
    \/ isAssetGif(asset)
    \/ isAssetThreeDAndIncludesImage(asset)
    \/ isAssetVideo(asset)
    \/ isAssetImage(asset)

\* The seven fields in the order of the two protocol searches.
protocolUrlsOf(asset) ==
    imageUrlsOf(asset) \o << asset.animation_url, asset.animation_original_url >>

IsIpfsUrl(url) == OptStartsWith(url, ipfsProtocolPrefix)

IsArweaveUrl(url) == OptStartsWith(url, arweavePrefix)

getIpfsProtocolUrl(asset) == Find(protocolUrlsOf(asset), IsIpfsUrl)

getIpfsMetadataUrl(ipfsProtocolUrl) ==
    IpfsGateway \o
        Replace(Substring(ipfsProtocolUrl, Len(ipfsProtocolPrefix)), IpfsSegment, <<>>)

getArweaveProtocolUrl(asset) == Find(protocolUrlsOf(asset), IsArweaveUrl)

getArweaveMetadataUrl(arweaveProtocolUrl) ==
    ArweaveGateway \o Substring(arweaveProtocolUrl, Len(arweavePrefix))

EndsWithGif(url) == OptEndsWith(url, DotGif)

Is3DUrl(url) == Truthy(url) /\ SomeExt(SUPPORTED_3D_EXTENSIONS, url)

IsVideoUrl(url) == Truthy(url) /\ SomeExt(SUPPORTED_VIDEO_EXTENSIONS, url)

\* imageUrls.find((url) => !!url)
FirstImageUrl(asset) == Find(imageUrlsOf(asset), Truthy)

\* const isWebpAnimated = (arrayBuffer) => decode(arrayBuffer).indexOf('ANMF') !== -1
isWebpAnimated(arrayBuffer) == IndexOf(arrayBuffer, ANMF) # -1

----------------------------------------------------------------------------
(* The state *)

VARIABLES
    mode,        \* the exported function being run
    pc,          \* where the run is: "start", "fetch", "body", "done"
    branch,      \* the branch whose await is pending
    asset,       \* assetToCollectible's argument
    locals,      \* assetToCollectible's let-variables
    request,     \* the request of the pending or last fetchWithTimeout
    nreq,        \* the number of network requests issued so far
    timer,       \* fetchWithTimeout's timer: "unset", "armed", "cleared", "fired"
    remote,      \* the content of the remote resource that answered
    res,         \* the response fetchWithTimeout resolved to
    outcome,     \* "pending", "collectible", "null" or "thrown"
    collectible, \* the Collectible the promise resolved to
    nft,         \* the Metaplex or Star Atlas record being resolved
    mediaInfo,   \* getMediaInfo's result
    hnft,        \* the Helius record
    blocklist,   \* isHeliusNFTValid's blocklist
    valid,       \* isHeliusNFTValid's result: "pending", "true" or "false"
    rawUrl,      \* the argument of the gateway rewrite
    gatewayUrl,  \* its result
    run,         \* 1 for the first resolution of the record, 2 for the second
    firstRun     \* what the first resolution returned, and what the network did

vars ==
    << mode, pc, branch, asset, locals, request, nreq, timer, remote, res,
       outcome, collectible, nft, mediaInfo, hnft, blocklist, valid,
       rawUrl, gatewayUrl, run, firstRun >>

\* What a run of assetToCollectible leaves alone.
notEth == << nft, mediaInfo, hnft, blocklist, valid, rawUrl, gatewayUrl, run, firstRun >>

\* The network does in a second resolution what it did in the first: t is
\* where the timer of the probe ended up.
Replays(t) == run = 2 => firstRun.timer = t

\* ... and the probe gets the same response, from the same remote content.
ReplaysResponse(r, content) ==
    run = 2 => firstRun.timer = "cleared" /\ firstRun.res = r /\ firstRun.remote = content

----------------------------------------------------------------------------
(* The network, as fetch sees it *)

\* bytes=0-100 asks for the first 101 bytes
RangeLen == 101

NoRequest == [url |-> Undefined, method |-> "NONE"]

NoResponse == [status |-> 0, contentType |-> Null, body |-> <<>>]

CT_png == <<"i","m","a","g","e","/","p","n","g">>   \* 'image/png'
CT_gif == <<"i","m","a","g","e","/","g","i","f">>   \* 'image/gif'
CT_mp4 == <<"v","i","d","e","o","/","m","p","4">>   \* 'video/mp4'
CT_mpeg == <<"a","u","d","i","o","/","m","p","e","g">>   \* 'audio/mpeg'
CT_webp == <<"i","m","a","g","e","/","w","e","b","p">>   \* 'image/webp'

\* The Content-Type header values a server answers with; Null: no header.
ContentTypes == {Null, CT_png, CT_gif, CT_mp4, CT_mpeg, CT_webp}

Statuses == {200, 404}

RiffHeader == <<"R","I","F","F","W","E","B","P","V","P","8","X">>

Padding == [i \in 1..RangeLen |-> "x"]

\* Remote WebP files: a static one, an animated one whose ANMF chunk is
\* within the first RangeLen bytes, an animated one whose ANMF chunk is not.
StaticWebp == RiffHeader

AnimatedWebp == RiffHeader \o ANMF

AnimatedWebpLate == RiffHeader \o Padding \o ANMF

\* The remote contents tried for a content type: the body is read for webp only.
ContentsOf(contentType) ==
    IF contentType = CT_webp THEN {StaticWebp, AnimatedWebp, AnimatedWebpLate}
    ELSE {<<>>}

\* The body a response carries: none for HEAD; for a GET with a Range header
\* the first RangeLen bytes when the server honours the range, else all of it.
BodyOf(method, honoursRange, content) ==
    IF method = "HEAD" THEN <<>>
    ELSE IF honoursRange /\ Len(content) > RangeLen THEN SubSeq(content, 1, RangeLen)
    ELSE content

\* headers.get('Content-Type')?.includes(word)
ContentTypeIncludes(response, word) ==
    ~IsNullish(response.contentType) /\ Includes(response.contentType, word)

----------------------------------------------------------------------------
(* assetToCollectible: the let-variables and the returned record *)

InitLocals ==
    [ mediaType |-> "undefined",
      frameUrl |-> Null,
      imageUrl |-> Null,
      videoUrl |-> Null,
      threeDUrl |-> Null,
      gifUrl |-> Null,
      hasAudio |-> FALSE,
      animationUrlOverride |-> Null,
      ab |-> Undefined ]   \* the array buffer read for a webp response

JsBool(b) == IF b THEN <<"true">> ELSE <<"false">>

NoCollectible ==
    [ mediaType |-> "undefined",
      frameUrl |-> Undefined,
      imageUrl |-> Undefined,
      videoUrl |-> Undefined,
      threeDUrl |-> Undefined,
      gifUrl |-> Undefined,
      animationUrl |-> Undefined,
      hasAudio |-> Undefined,
      collectionSlug |-> Undefined,
      chain |-> "none" ]

\* typeof asset.collection === 'object' ? asset.collection.name ?? null : asset.collection
\* reads .name of null when collection is null: a TypeError.
CollectionSlugThrows(a) == a.collection = Null

collectionSlugOf(a) ==
    IF TypeOf(a.collection) = "object"
    THEN Coalesce(a.collection[2], Null)
    ELSE a.collection

\* A record that would prefer the asset's own animation_url to the override.
EthCollectibleAssetAnimationFirst(a, l) ==
    [ mediaType |-> l.mediaType,
      frameUrl |-> l.frameUrl,
      imageUrl |-> l.imageUrl,
      videoUrl |-> l.videoUrl,
      threeDUrl |-> l.threeDUrl,
      gifUrl |-> l.gifUrl,
      animationUrl |-> Coalesce(a.animation_url, Coalesce(l.animationUrlOverride, Null)),
      hasAudio |-> JsBool(l.hasAudio),
      collectionSlug |-> Coalesce(collectionSlugOf(a), Null),
      chain |-> "eth" ]

EthCollectible(a, l) ==
    [ mediaType |-> l.mediaType,
      frameUrl |-> l.frameUrl,
      imageUrl |-> l.imageUrl,
      videoUrl |-> l.videoUrl,
      threeDUrl |-> l.threeDUrl,
      gifUrl |-> l.gifUrl,
      animationUrl |-> Coalesce(l.animationUrlOverride, Coalesce(a.animation_url, Null)),
      hasAudio |-> JsBool(l.hasAudio),
      collectionSlug |-> Coalesce(collectionSlugOf(a), Null),
      chain |-> "eth" ]

\* The outer catch of assetToCollectible.
OuterCatch(l) ==
    [l EXCEPT !.mediaType = CollectibleMediaType("IMAGE"),
              !.imageUrl = placeholderCoverArt,
              !.frameUrl = placeholderCoverArt]

Ok(l) == [ok |-> TRUE, l |-> l]

Threw(l) == [ok |-> FALSE, l |-> l]

\* A GIF branch that would keep the GIF itself as its frame.
GifBranchKeepingFrame(a, l) ==
    LET found == Find(imageUrlsOf(a), EndsWithGif)
    IN  [l EXCEPT !.mediaType = CollectibleMediaType("GIF"),
                  !.frameUrl = found,
                  !.gifUrl = IF Truthy(getIpfsProtocolUrl(a))
                             THEN getIpfsMetadataUrl(found)
                             ELSE found]

\* The GIF branch.
GifBranch(a, l) ==
    LET found == Find(imageUrlsOf(a), EndsWithGif)
    IN  [l EXCEPT !.mediaType = CollectibleMediaType("GIF"),
                  !.frameUrl = Null,
                  !.gifUrl = IF Truthy(getIpfsProtocolUrl(a))
                             THEN getIpfsMetadataUrl(found)
                             ELSE found]

\* The 3D branch up to its await.
ThreeDBranch(a, l) ==
    [l EXCEPT !.mediaType = CollectibleMediaType("THREE_D"),
              !.threeDUrl = Find(mediaUrlsOf(a), Is3DUrl),
              !.frameUrl = Find(imageUrlsOf(a), IsPlainImageUrl)]

\* A 3D branch that would not look at the content type of its frame.
ThreeDAfterProbeKeepingFrame(l, response) == l

\* The 3D branch after its probe resolved.
ThreeDAfterProbe(l, response) ==
    IF ContentTypeIncludes(response, S_gif)
    THEN [l EXCEPT !.gifUrl = l.frameUrl, !.frameUrl = Null]
    ELSE l

\* The video branch up to its await (or to its end when there is no frame).
VideoBranch(a, l) ==
    [l EXCEPT !.mediaType = CollectibleMediaType("VIDEO"),
              !.frameUrl = Coalesce(Find(imageUrlsOf(a), IsPlainImageUrl), Null)]

VideoFinish(a, l) ==
    [l EXCEPT !.videoUrl = Find(mediaUrlsOf(a), IsVideoUrl)]

VideoAfterProbe(a, l, response) ==
    VideoFinish(a,
        IF ContentTypeIncludes(response, S_video) \/ ContentTypeIncludes(response, S_gif)
        THEN [l EXCEPT !.frameUrl = Null]
        ELSE l)

\* The status test and the animated-WebP case, the same in the three probing
\* branches: Null when neither applies.
PlaceholderImage(l) ==
    [l EXCEPT !.mediaType = CollectibleMediaType("IMAGE"),
              !.imageUrl = placeholderCoverArt,
              !.frameUrl = placeholderCoverArt]

AnimatedWebpResult(l) ==
    [l EXCEPT !.mediaType = CollectibleMediaType("ANIMATED_WEBP"),
              !.gifUrl = l.frameUrl,
              !.frameUrl = Null]

\* The ipfs branch after its probe (and the body read, when there was one).
IpfsClassify(a, l, response, isAnimatedWebp) ==
    LET metadataUrl == getIpfsMetadataUrl(getIpfsProtocolUrl(a))
        first == FirstImageUrl(a)
    IN  IF response.status >= 300 THEN Ok(PlaceholderImage(l))
        ELSE IF isAnimatedWebp THEN Ok(AnimatedWebpResult(l))
        ELSE IF ContentTypeIncludes(response, S_gif)
        THEN Ok([l EXCEPT !.mediaType = CollectibleMediaType("GIF"),
                          !.frameUrl = Null,
                          !.gifUrl = metadataUrl])
        ELSE IF ContentTypeIncludes(response, S_video)
        THEN Ok([l EXCEPT !.mediaType = CollectibleMediaType("VIDEO"),
                          !.frameUrl = Null,
                          !.videoUrl = metadataUrl])
        ELSE IF first = Undefined
        \* imageUrl.startsWith on undefined: a TypeError
        THEN Threw([l EXCEPT !.mediaType = CollectibleMediaType("IMAGE"),
                             !.imageUrl = Undefined])
        ELSE LET img == IF StartsWith(first, ipfsProtocolPrefix)
                        THEN getIpfsMetadataUrl(first) ELSE first
             IN  Ok([l EXCEPT !.mediaType = CollectibleMediaType("IMAGE"),
                              !.imageUrl = img,
                              !.frameUrl = img,
                              !.hasAudio = ContentTypeIncludes(response, S_audio),
                              !.animationUrlOverride =
                                  IF ContentTypeIncludes(response, S_audio)
                                  THEN metadataUrl ELSE Null])

\* The inner catch of the ipfs branch.
IpfsCatch(a, l) ==
    LET first == FirstImageUrl(a)
    IN  IF first = Undefined
        \* frameUrl.startsWith on undefined: a TypeError, out of the handler
        THEN Threw([l EXCEPT !.mediaType = CollectibleMediaType("IMAGE"),
                             !.frameUrl = Undefined])
        ELSE LET img == IF StartsWith(first, ipfsProtocolPrefix)
                        THEN getIpfsMetadataUrl(first) ELSE first
             IN  Ok([l EXCEPT !.mediaType = CollectibleMediaType("IMAGE"),
                              !.frameUrl = img,
                              !.imageUrl = img])

\* The arweave branch after its probe.
ArweaveClassify(a, l, response, isAnimatedWebp) ==
    LET metadataUrl == getArweaveMetadataUrl(getArweaveProtocolUrl(a))
        first == FirstImageUrl(a)
    IN  IF response.status >= 300 THEN Ok(PlaceholderImage(l))
        ELSE IF isAnimatedWebp THEN Ok(AnimatedWebpResult(l))
        ELSE IF ContentTypeIncludes(response, S_gif)
        THEN Ok([l EXCEPT !.mediaType = CollectibleMediaType("GIF"),
                          !.frameUrl = Null,
                          !.gifUrl = metadataUrl])
        ELSE IF ContentTypeIncludes(response, S_video)
        THEN Ok([l EXCEPT !.mediaType = CollectibleMediaType("VIDEO"),
                          !.frameUrl = Null,
                          !.videoUrl = metadataUrl])
        ELSE IF first = Undefined
        THEN Threw([l EXCEPT !.mediaType = CollectibleMediaType("IMAGE"),
                             !.imageUrl = Undefined])
        ELSE LET img == IF StartsWith(first, arweavePrefix)
                        THEN getArweaveMetadataUrl(first) ELSE first
             IN  Ok([l EXCEPT !.mediaType = CollectibleMediaType("IMAGE"),
                              !.imageUrl = img,
                              !.frameUrl = img,
                              !.hasAudio = ContentTypeIncludes(response, S_audio),
                              !.animationUrlOverride =
                                  IF ContentTypeIncludes(response, S_audio)
                                  THEN metadataUrl ELSE Null])

\* The inner catch of the arweave branch: no rewrite, and nothing that throws.
ArweaveCatch(a, l) ==
    [l EXCEPT !.mediaType = CollectibleMediaType("IMAGE"),
              !.frameUrl = FirstImageUrl(a),
              !.imageUrl = FirstImageUrl(a)]

\* The last branch up to its await.
RawBranch(a, l) == [l EXCEPT !.frameUrl = FirstImageUrl(a)]

\* The last branch after its probe.
RawClassify(a, l, response, isAnimatedWebp) ==
    IF response.status >= 300 THEN PlaceholderImage(l)
    ELSE IF isAnimatedWebp THEN AnimatedWebpResult(l)
    ELSE IF ContentTypeIncludes(response, S_gif)
    THEN [l EXCEPT !.mediaType = CollectibleMediaType("GIF"),
                   !.gifUrl = l.frameUrl,
                   !.frameUrl = Null]
    ELSE IF ContentTypeIncludes(response, S_video)
    THEN [l EXCEPT !.mediaType = CollectibleMediaType("VIDEO"),
                   !.frameUrl = Null,
                   !.videoUrl = FirstImageUrl(a)]
    ELSE [l EXCEPT !.mediaType = CollectibleMediaType("IMAGE"),
                   !.imageUrl = FirstImageUrl(a),
                   !.frameUrl = FirstImageUrl(a)]

\* An exception raised in the inner try of a protocol branch: the inner catch,
\* and the outer one when the inner handler throws in its turn.
IpfsRecover(a, l) ==
    LET c == IpfsCatch(a, l)
    IN  IF c.ok THEN c.l ELSE OuterCatch(c.l)

IpfsFinish(a, l, response, isAnimatedWebp) ==
    LET t == IpfsClassify(a, l, response, isAnimatedWebp)
    IN  IF t.ok THEN t.l ELSE IpfsRecover(a, t.l)

ArweaveFinish(a, l, response, isAnimatedWebp) ==
    LET t == ArweaveClassify(a, l, response, isAnimatedWebp)
    IN  IF t.ok THEN t.l ELSE ArweaveCatch(a, t.l)

----------------------------------------------------------------------------
(* The records resolved *)

\* At most MaxFields fields of an asset are present.
MaxFields == 2

U_png == <<"h","t","t","p","s",":","/","/","a","/","x",".","p","n","g">>   \* 'https://a/x.png'
U_gif == <<"h","t","t","p","s",":","/","/","a","/","x",".","g","i","f">>   \* 'https://a/x.gif'
U_glb == <<"h","t","t","p","s",":","/","/","a","/","m",".","g","l","b">>   \* 'https://a/m.glb'
U_gltf == <<"h","t","t","p","s",":","/","/","a","/","m",".","g","l","t","f">>   \* 'https://a/m.gltf'
U_mp4 == <<"h","t","t","p","s",":","/","/","a","/","v",".","m","p","4">>   \* 'https://a/v.mp4'
U_mp3 == <<"h","t","t","p","s",":","/","/","a","/","s",".","m","p","3">>   \* 'https://a/s.mp3'
U_ipfs == <<"i","p","f","s",":","/","/","Q","m","/","x">>   \* 'ipfs://Qm/x'
U_ipfsInner == <<"i","p","f","s",":","/","/","Q","m","/","i","p","f","s","/","x">>   \* 'ipfs://Qm/ipfs/x'
U_ipfsGif == <<"i","p","f","s",":","/","/","Q","m","/","x",".","g","i","f">>   \* 'ipfs://Qm/x.gif'
U_ar == <<"a","r",":","/","/","t","x">>   \* 'ar://tx'

\* The values of a URL field that is present: null, '', and URLs of each kind
\* the adapter tells apart.
EthUrlValues ==
    { Null, <<>>, U_png, U_gif, U_glb, U_mp4, U_mp3, U_ipfs, U_ipfsInner,
      U_gltf, U_ipfsGif, U_ar }

UrlFields ==
    { "image", "image_url", "image_original_url", "image_preview_url",
      "image_thumbnail_url", "animation_url", "animation_original_url" }

\* asset.collection: absent, null, a slug, or an object with a name
CollectionValues == { Undefined, Null, <<"c">>, Obj(<<"n">>) }

FieldOf(S, v, f) == IF f \in S THEN v[f] ELSE Undefined

AssetOf(S, v, c) ==
    [ image |-> FieldOf(S, v, "image"),
      image_url |-> FieldOf(S, v, "image_url"),
      image_original_url |-> FieldOf(S, v, "image_original_url"),
      image_preview_url |-> FieldOf(S, v, "image_preview_url"),
      image_thumbnail_url |-> FieldOf(S, v, "image_thumbnail_url"),
      animation_url |-> FieldOf(S, v, "animation_url"),
      animation_original_url |-> FieldOf(S, v, "animation_original_url"),
      collection |-> c ]

Assets ==
    UNION { UNION { { AssetOf(S, v, c) : v \in [S -> EthUrlValues] } :
                    S \in { T \in SUBSET UrlFields :
                              Cardinality(T) + (IF c = Undefined THEN 0 ELSE 1)
                                  <= MaxFields } } :
            c \in CollectionValues }

NoAsset == AssetOf({}, <<>>, Undefined)

----------------------------------------------------------------------------
(* assetToCollectible: the steps *)

\* return collectible, or the TypeError of the collection slug
Return(a, l) ==
    /\ pc' = "done"
    /\ locals' = l
    /\ IF CollectionSlugThrows(a)
       THEN outcome' = "thrown" /\ collectible' = NoCollectible
       ELSE outcome' = "collectible" /\ collectible' = EthCollectible(a, l)
    /\ UNCHANGED notEth

\* fetchWithTimeout(url, { method }): the timer is set and the request issued
Fetch(url, method, b, l) ==
    /\ pc' = "fetch"
    /\ branch' = b
    /\ locals' = l
    /\ request' = [url |-> url, method |-> method]
    /\ nreq' = nreq + 1
    /\ timer' = "armed"
    /\ UNCHANGED << remote, res, outcome, collectible >>
    /\ UNCHANGED notEth

AssetGif ==
    /\ mode = "eth" /\ pc = "start"
    /\ isAssetGif(asset)
    /\ Return(asset, GifBranch(asset, locals))
    /\ UNCHANGED << mode, branch, asset, request, nreq, timer, remote, res >>

AssetThreeD ==
    /\ mode = "eth" /\ pc = "start"
    /\ ~isAssetGif(asset)
    /\ isAssetThreeDAndIncludesImage(asset)
    /\ LET l == ThreeDBranch(asset, locals)
       IN  Fetch(l.frameUrl, "HEAD", "threeD", l)
    /\ UNCHANGED << mode, asset >>

AssetVideo ==
    /\ mode = "eth" /\ pc = "start"
    /\ ~isAssetGif(asset)
    /\ ~isAssetThreeDAndIncludesImage(asset)
    /\ isAssetVideo(asset)
    /\ LET l == VideoBranch(asset, locals)
       IN  IF Truthy(l.frameUrl)
           THEN /\ Fetch(l.frameUrl, "HEAD", "video", l)
                /\ UNCHANGED << mode, asset >>
           ELSE /\ Return(asset, VideoFinish(asset, l))
                /\ UNCHANGED << mode, branch, asset, request, nreq, timer, remote, res >>

\* A chain that would go on to the probes past a video record.
NoStaticBranchButVideo(a) ==
    /\ ~isAssetGif(a)
    /\ ~isAssetThreeDAndIncludesImage(a)

NoStaticBranch(a) ==
    /\ ~isAssetGif(a)
    /\ ~isAssetThreeDAndIncludesImage(a)
    /\ ~isAssetVideo(a)

AssetIpfs ==
    /\ mode = "eth" /\ pc = "start"
    /\ NoStaticBranch(asset)
    /\ Truthy(getIpfsProtocolUrl(asset))
    /\ Fetch(getIpfsMetadataUrl(getIpfsProtocolUrl(asset)), "HEAD", "ipfs", locals)
    /\ UNCHANGED << mode, asset >>

AssetArweave ==
    /\ mode = "eth" /\ pc = "start"
    /\ NoStaticBranch(asset)
    /\ ~Truthy(getIpfsProtocolUrl(asset))
    /\ Truthy(getArweaveProtocolUrl(asset))
    /\ Fetch(getArweaveMetadataUrl(getArweaveProtocolUrl(asset)), "HEAD", "arweave", locals)
    /\ UNCHANGED << mode, asset >>

AssetRaw ==
    /\ mode = "eth" /\ pc = "start"
    /\ NoStaticBranch(asset)
    /\ ~Truthy(getIpfsProtocolUrl(asset))
    /\ ~Truthy(getArweaveProtocolUrl(asset))
    /\ LET l == RawBranch(asset, locals)
       IN  Fetch(l.frameUrl, "GET", "raw", l)
    /\ UNCHANGED << mode, asset >>

\* The branches that classify by content type, and read the body for webp.
ProbingBranches == {"ipfs", "arweave", "raw"}

\* The code that runs after the probe's response, to the end of the function.
EthAfterBody(b, a, l, response, isAnimatedWebp) ==
    CASE b = "ipfs" -> IpfsFinish(a, l, response, isAnimatedWebp)
      [] b = "arweave" -> ArweaveFinish(a, l, response, isAnimatedWebp)
      [] b = "raw" -> RawClassify(a, l, response, isAnimatedWebp)

\* The handler that runs when an await of the branch rejects.
EthCatch(b, a, l) ==
    CASE b = "ipfs" -> IpfsRecover(a, l)
      [] b = "arweave" -> ArweaveCatch(a, l)
      [] OTHER -> OuterCatch(l)

\* The servers' answers to the pending request.
Responses(method) ==
    { [ r |-> [status |-> s, contentType |-> ct,
               body |-> BodyOf(method, h, c)],
        content |-> c ] :
      s \in Statuses, ct \in ContentTypes, h \in BOOLEAN,
      c \in UNION { ContentsOf(t) : t \in ContentTypes } }

\* fetch resolves before the timer fires; clearTimeout runs; the function
\* goes on to its next await or to its end.
EthFetchResolves ==
    /\ mode = "eth" /\ pc = "fetch"
    /\ \E x \in Responses(request.method) :
        /\ x.content \in ContentsOf(x.r.contentType)
        /\ ReplaysResponse(x.r, x.content)
        /\ res' = x.r
        /\ remote' = x.content
        /\ timer' = "cleared"
        /\ IF branch \in ProbingBranches /\ ContentTypeIncludes(x.r, S_webp)
           THEN /\ pc' = "body"
                /\ UNCHANGED << locals, outcome, collectible >>
                /\ UNCHANGED notEth
           ELSE Return(asset,
                    CASE branch = "threeD" -> ThreeDAfterProbe(locals, x.r)
                      [] branch = "video" -> VideoAfterProbe(asset, locals, x.r)
                      [] OTHER -> EthAfterBody(branch, asset, locals, x.r, FALSE))
    /\ UNCHANGED << mode, branch, asset, request, nreq >>

\* fetch rejects (a network error): the await throws, clearTimeout is skipped.
EthFetchRejects ==
    /\ mode = "eth" /\ pc = "fetch"
    /\ Replays("armed")
    /\ Return(asset, EthCatch(branch, asset, locals))
    /\ UNCHANGED << mode, branch, asset, request, nreq, timer, remote, res >>

\* The timer fires first: controller.abort() rejects the pending fetch.
EthFetchTimesOut ==
    /\ mode = "eth" /\ pc = "fetch"
    /\ timer = "armed"
    /\ Replays("fired")
    /\ timer' = "fired"
    /\ Return(asset, EthCatch(branch, asset, locals))
    /\ UNCHANGED << mode, branch, asset, request, nreq, remote, res >>

\* res.arrayBuffer() resolves with the body of the response.
EthBodyResolves ==
    /\ mode = "eth" /\ pc = "body"
    /\ run = 2 => firstRun.bodyRead
    /\ Return(asset, EthAfterBody(branch, asset, [locals EXCEPT !.ab = res.body],
                                  res, isWebpAnimated(res.body)))
    /\ UNCHANGED << mode, branch, asset, request, nreq, timer, remote, res >>

\* res.arrayBuffer() rejects (the connection breaks while the body is read).
EthBodyRejects ==
    /\ mode = "eth" /\ pc = "body"
    /\ run = 2 => ~firstRun.bodyRead
    /\ Return(asset, EthCatch(branch, asset, locals))
    /\ UNCHANGED << mode, branch, asset, request, nreq, timer, remote, res >>

EthNext ==
    \/ AssetGif
    \/ AssetThreeD
    \/ AssetVideo
    \/ AssetIpfs
    \/ AssetArweave
    \/ AssetRaw
    \/ EthFetchResolves
    \/ EthFetchRejects
    \/ EthFetchTimesOut
    \/ EthBodyResolves
    \/ EthBodyRejects


----------------------------------------------------------------------------
(* sol/helpers.ts: the Metaplex strategies *)

\* A file of properties.files: a bare URL string (kept in uri), or an object
\* with uri, type and file.
StrFile(s) == [kind |-> "string", uri |-> s, type |-> Undefined, file |-> Undefined]

ObjFile(uri, type, file) == [kind |-> "object", uri |-> uri, type |-> type, file |-> file]

\* files.find(pred) as an index: 0 when no file satisfies pred
FindFile(files, P(_)) ==
    IF \E i \in 1..Len(files) : P(files[i])
    THEN MinOf({i \in 1..Len(files) : P(files[i])})
    ELSE 0

\* typeof files[i] === 'object' ? files[i].uri : files[i]
FileUrl(f) == f.uri

\* SolanaNFTMedia, and the null returned in its place
Media(type, u, frame) == [collectibleMediaType |-> type, url |-> u, frameUrl |-> frame]

NullMedia == Media("null", Undefined, Undefined)

IsNullMedia(m) == m.collectibleMediaType = "null"

videodeliveryPrefix ==   \* 'https://watch.videodelivery.net/'
    <<"h","t","t","p","s",":","/","/","w","a","t","c","h",".","v","i","d","e","o","d","e","l","i","v","e","r","y",".","n","e","t","/">>

TypeIncludes(f, word) == ~IsNullish(f.type) /\ Includes(f.type, word)

IsGifFile(f) == f.kind = "object" /\ f.type = CT_gif

IsGlbTypedFile(f) == f.kind = "object" /\ TypeIncludes(f, S_glb)

IsGlbStringFile(f) == f.kind = "string" /\ EndsWith(f.uri, S_glb)

IsImageTypedFile(f) == f.kind = "object" /\ TypeIncludes(f, S_image)

IsVideoTypedFile(f) ==
    f.kind = "object" /\ TypeIncludes(f, S_video) /\ ~EndsWith(f.type, S_glb)

IsVideoDeliveryFile(f) == f.kind = "string" /\ StartsWith(f.uri, videodeliveryPrefix)

\* files.length === 1 ? files[0] : files[1], as a URL
OnlyOrSecondFile(files) == IF Len(files) = 1 THEN FileUrl(files[1]) ELSE FileUrl(files[2])

metaplexNftGif(n) ==
    LET i == FindFile(n.files, IsGifFile)
    IN  IF i = 0 THEN NullMedia
        ELSE Media(CollectibleMediaType("GIF"),
                   IF Truthy(n.files[i].uri) THEN n.files[i].uri ELSE n.files[i].file,
                   Null)

metaplexNftThreeDWithFrame(n) ==
    LET objFile == FindFile(n.files, IsGlbTypedFile)
        objUrl == FindFile(n.files, IsGlbStringFile)
        is3DObject ==
            \/ n.category = S_vr
            \/ OptEndsWith(n.animation_url, S_glb)
            \/ objFile # 0
            \/ objUrl # 0
        imageFile == FindFile(n.files, IsImageTypedFile)
        frameUrl ==
            IF ~OptEndsWith(n.image, S_glb) THEN n.image
            ELSE IF imageFile # 0 THEN n.files[imageFile].uri
            ELSE Undefined
    IN  IF is3DObject /\ Truthy(frameUrl)
        THEN IF Truthy(n.animation_url) /\ EndsWith(n.animation_url, S_glb)
             THEN Media(CollectibleMediaType("THREE_D"), n.animation_url, frameUrl)
             ELSE IF objFile # 0
             THEN Media(CollectibleMediaType("THREE_D"), n.files[objFile].uri, frameUrl)
             ELSE IF objUrl # 0
             THEN Media(CollectibleMediaType("THREE_D"), n.files[objUrl].uri, frameUrl)
             ELSE NullMedia
        ELSE NullMedia

metaplexNftVideo(n) ==
    LET videoFile == FindFile(n.files, IsVideoTypedFile)
        videoUrl == FindFile(n.files, IsVideoDeliveryFile)
        animated == Truthy(n.animation_url) /\ ~EndsWith(n.animation_url, S_glb)
        isVideo ==
            \/ n.category = S_video
            \/ animated
            \/ videoFile # 0
            \/ videoUrl # 0
        frameUrl == IF Truthy(n.image) THEN n.image ELSE Null
    IN  IF ~isVideo THEN NullMedia
        ELSE IF animated
        THEN Media(CollectibleMediaType("VIDEO"), n.animation_url, frameUrl)
        ELSE IF videoFile # 0
        THEN Media(CollectibleMediaType("VIDEO"), n.files[videoFile].uri, frameUrl)
        ELSE IF videoUrl # 0
        THEN Media(CollectibleMediaType("VIDEO"), n.files[videoUrl].uri, frameUrl)
        ELSE IF Len(n.files) # 0
        THEN Media(CollectibleMediaType("VIDEO"), OnlyOrSecondFile(n.files), frameUrl)
        ELSE NullMedia

metaplexNftImage(n) ==
    LET imageFile == FindFile(n.files, IsImageTypedFile)
        hasImage == Truthy(n.image)   \* nft.image?.length
        isImage == n.category = S_image \/ hasImage \/ imageFile # 0
        img(u) == Media(CollectibleMediaType("IMAGE"), u, u)
    IN  IF ~isImage THEN NullMedia
        ELSE IF hasImage THEN img(n.image)
        ELSE IF imageFile # 0 THEN img(n.files[imageFile].uri)
        ELSE IF Len(n.files) # 0 THEN img(OnlyOrSecondFile(n.files))
        ELSE NullMedia

\* metaplexNftComputedMedia after its HEAD probe resolved
metaplexNftComputedMedia(n, response) ==
    LET u == FileUrl(n.files[1])
    IN  IF ContentTypeIncludes(response, S_gif)
        THEN Media(CollectibleMediaType("GIF"), u, Null)
        ELSE IF ContentTypeIncludes(response, S_video)
        THEN Media(CollectibleMediaType("VIDEO"), u, Null)
        ELSE IF ContentTypeIncludes(response, S_image)
        THEN Media(CollectibleMediaType("IMAGE"), u, u)
        ELSE NullMedia

\* The record metaplexNFTToCollectible and heliusNFTToCollectible build from
\* a media info; with (mediaInfo ?? {}) every field read is undefined.
SolCollectible(m) ==
    LET t == IF IsNullMedia(m) THEN "undefined" ELSE m.collectibleMediaType
        pick(type) == IF t = CollectibleMediaType(type) THEN m.url ELSE Undefined
    IN  [ mediaType |-> t,
          frameUrl |-> m.frameUrl,
          imageUrl |-> pick("IMAGE"),
          videoUrl |-> pick("VIDEO"),
          threeDUrl |-> pick("THREE_D"),
          gifUrl |-> pick("GIF"),
          animationUrl |-> Undefined,
          hasAudio |-> Undefined,
          collectionSlug |-> Undefined,
          chain |-> "sol" ]

----------------------------------------------------------------------------
(* sol/helpers.ts: starAtlasNFTToCollectible *)

ThreeDExtensions == << <<"g","l","b">>, <<"g","l","t","f">> >>

starAtlasItems(n) == { u \in {n.image, n.thumbnailUrl} : Truthy(u) }

\* nft.image.endsWith on a missing image: a TypeError
starAtlasThrows(n) ==
    /\ \E u \in starAtlasItems(n) : SomeExt(ThreeDExtensions, u)
    /\ \E u \in starAtlasItems(n) : ~SomeExt(ThreeDExtensions, u)
    /\ IsNullish(n.image)

starAtlasNFTToCollectible(n) ==
    LET is3DObj == \E u \in starAtlasItems(n) : SomeExt(ThreeDExtensions, u)
        hasImageFrame == \E u \in starAtlasItems(n) : ~SomeExt(ThreeDExtensions, u)
        imageIs3D == ~IsNullish(n.image) /\ SomeExt(ThreeDExtensions, n.image)
    IN  IF is3DObj /\ hasImageFrame
        THEN [ NoCollectible EXCEPT
                 !.mediaType = CollectibleMediaType("THREE_D"),
                 !.threeDUrl = IF imageIs3D THEN n.image ELSE n.thumbnailUrl,
                 !.frameUrl = IF ~SomeExt(ThreeDExtensions, n.image)
                              THEN n.image ELSE n.thumbnailUrl,
                 !.chain = "sol" ]
        ELSE [ NoCollectible EXCEPT
                 !.mediaType = CollectibleMediaType("IMAGE"),
                 !.imageUrl = n.image,
                 !.frameUrl = IF Truthy(n.thumbnailUrl) THEN n.thumbnailUrl ELSE n.image,
                 !.chain = "sol" ]

----------------------------------------------------------------------------
(* sol/helpers.ts: isHeliusNFTValid *)

audiusBlocklistUrls ==
    << <<".","p","r","o">>,
       <<".","s","i","t","e">>,
       <<".","c","l","i","c","k">>,
       <<".","f","u","n">>,
       <<"s","o","l","-","d","r","i","f","t",".","c","o","m">>,
       <<"m","y","r","o","v","o","u","c","h","e","r",".","c","o","m">>,
       <<"m","a","g","i","c","e","d","e","n",".","c","l","u","b">>,
       <<"t","e","n","s","o","r",".","m","a","r","k","e","t","s">>,
       <<"m","n","d","e",".","n","e","t","w","o","r","k">>,
       <<"4","0","0","0","w",".","i","o">>,
       <<"j","u","p","p","i",".","i","o">>,
       <<"j","u","p","d","a","o",".","c","o","m">>,
       <<"j","u","p","g","e","m",".","c","o","m">>,
       <<"j","u","p","t","r","e","a","s","u","r","e",".","c","o","m">>,
       <<"s","l","e","r","f","d","r","o","p",".","c","o","m">>,
       <<"a","i","r","d","r","o","p",".","d","r","i","f","t",".","e","x","c","h","a","n","g","e">> >>

audiusBlocklistNames ==
    << <<"$","1","0","0","0">>,
       <<"0","0","j","u","p">>,
       <<"a","i","r","d","r","o","p">>,
       <<"v","o","u","c","h","e","r">> >> \o audiusBlocklistUrls

\* A containment test that would compare the strings as they are.
SomeItemInCaseSensitive(items, value) ==
    \E i \in 1..Len(items) : ~IsNullish(value) /\ Includes(value, items[i])

\* items.some((item) => value?.toLowerCase().includes(item.toLowerCase()))
SomeItemIn(items, value) ==
    \E i \in 1..Len(items) :
        ~IsNullish(value) /\ Includes(ToLowerCase(value), ToLowerCase(items[i]))

\* nftBlocklist.includes(nft.id)
ArrayIncludes(items, value) == \E i \in 1..Len(items) : items[i] = value

isExternalUrlBlocked(n, bl) ==
    SomeItemIn(bl.blocklist \o audiusBlocklistUrls, n.external_url)

isNftIdBlocked(n, bl) == ArrayIncludes(bl.nftBlocklist, n.id)

isNameBlocked(n, bl) ==
    SomeItemIn(bl.nameContains \o audiusBlocklistNames, n.name)

isCollectionNameBlocked(n, bl) ==
    \E g \in 1..Len(n.grouping) :
        SomeItemIn(bl.nameContains \o audiusBlocklistNames, n.grouping[g])

isSymbolBlocked(n, bl) == SomeItemIn(bl.symbolContains, n.symbol)

isHeliusNFTValid(n, bl) ==
    IF isExternalUrlBlocked(n, bl) THEN FALSE
    ELSE IF isNftIdBlocked(n, bl) THEN FALSE
    ELSE IF isNameBlocked(n, bl) THEN FALSE
    ELSE IF isCollectionNameBlocked(n, bl) THEN FALSE
    ELSE IF isSymbolBlocked(n, bl) THEN FALSE
    ELSE TRUE

----------------------------------------------------------------------------
(* The Solana records, the Helius records and the blocklists tried *)

\* properties.files holds at most MaxFiles files.
MaxFiles == 2

\* A grouping holds at most MaxGroups groups.
MaxGroups == 2

\* A URL given to the gateway rewrite has at most MaxSegments path segments.
MaxSegments == 3

U_plain == <<"h","t","t","p","s",":","/","/","a","/","x">>   \* 'https://a/x'

U_videodelivery ==   \* 'https://watch.videodelivery.net/v'
    videodeliveryPrefix \o <<"v">>

T_glb == <<"m","o","d","e","l","/","g","l","b">>   \* 'model/glb'

SolImageValues == { Undefined, <<>>, U_png, U_gif, U_glb, U_ipfs }

SolAnimationValues == { Undefined, U_glb, U_gltf, U_mp4 }

Categories == { Undefined, S_vr, S_video, S_image }

FileValues ==
    { StrFile(U_glb),
      StrFile(U_videodelivery),
      ObjFile(U_gif, CT_gif, Undefined),
      ObjFile(Undefined, CT_gif, U_gif),
      ObjFile(U_png, CT_png, Undefined),
      ObjFile(U_mp4, CT_mp4, Undefined),
      ObjFile(U_glb, T_glb, Undefined),
      ObjFile(U_plain, Undefined, Undefined) }

SeqsUpTo(S, n) == UNION { [1..k -> S] : k \in 0..n }

MetaplexNFTs ==
    { [ image |-> i, animation_url |-> a, category |-> c, files |-> f,
        thumbnailUrl |-> Undefined ] :
      i \in SolImageValues, a \in SolAnimationValues, c \in Categories,
      f \in SeqsUpTo(FileValues, MaxFiles) }

StarAtlasValues == { Undefined, <<>>, U_png, U_glb, U_gltf }

StarAtlasNFTs ==
    { [ image |-> i, animation_url |-> Undefined, category |-> Undefined,
        files |-> <<>>, thumbnailUrl |-> t ] :
      i \in StarAtlasValues, t \in StarAtlasValues }

NoNft ==
    [ image |-> Undefined, animation_url |-> Undefined, category |-> Undefined,
      files |-> <<>>, thumbnailUrl |-> Undefined ]

X_clean == <<"a",".","i","o">>   \* 'a.io'
X_builtin == <<"a",".","P","R","O","/","x">>   \* 'a.PRO/x'
X_listed == <<"B","a","d",".","i","o">>   \* 'Bad.io'
E_bad == <<"b","A","d">>   \* 'bAd'
N_clean == <<"a","p","e">>   \* 'ape'
N_builtin == <<"A","i","r","D","r","o","p">>   \* 'AirDrop'
N_listed == <<"a","R","O","B","a">>   \* 'aROBa'
E_rob == <<"R","o","b">>   \* 'Rob'
Y_listed == <<"r","o","b","s">>   \* 'robs'
Id1 == <<"i","1">>   \* 'i1'
Id2 == <<"i","2">>   \* 'i2'

HeliusNFTs ==
    { [ id |-> i, name |-> n, symbol |-> y, external_url |-> x, grouping |-> g ] :
      i \in {Id1, Id2},
      n \in {Undefined, N_clean, N_builtin, N_listed},
      y \in {Undefined, N_clean, Y_listed},
      x \in {Undefined, X_clean, X_builtin, X_listed},
      g \in SeqsUpTo({Undefined, N_clean, N_listed}, MaxGroups) }

Blocklists ==
    { [ blocklist |-> u, nftBlocklist |-> i, nameContains |-> n, symbolContains |-> y ] :
      u \in {<<>>, <<E_bad>>},
      i \in {<<>>, <<Id1>>},
      n \in {<<>>, <<E_rob>>},
      y \in {<<>>, <<E_rob>>} }

NoHeliusNft ==
    [ id |-> Id1, name |-> Undefined, symbol |-> Undefined,
      external_url |-> Undefined, grouping |-> <<>> ]

NoBlocklist ==
    [ blocklist |-> <<>>, nftBlocklist |-> <<>>, nameContains |-> <<>>,
      symbolContains |-> <<>> ]

Segments == { IpfsSegment, <<"Q","m","/">>, <<"x">> }

RECURSIVE Flatten(_)
Flatten(ss) == IF ss = <<>> THEN <<>> ELSE Head(ss) \o Flatten(Tail(ss))

GatewayInputs ==
    { p \o Flatten(ss) :
      p \in {ipfsProtocolPrefix, arweavePrefix}, ss \in SeqsUpTo(Segments, MaxSegments) }

----------------------------------------------------------------------------
(* sol/helpers.ts: the steps of solanaNFTToCollectible *)

\* What a run of solanaNFTToCollectible leaves alone.
notSol == << asset, locals, hnft, blocklist, valid, rawUrl, gatewayUrl, run, firstRun >>

\* An adapter that would leave out a record it has returned before.
SolReturnOnce(m) ==
    /\ pc' = "done"
    /\ mediaInfo' = m
    /\ IF run = 2 \/ (mode = "helius" /\ IsNullMedia(m))
       THEN outcome' = "null" /\ collectible' = NoCollectible
       ELSE outcome' = "collectible" /\ collectible' = SolCollectible(m)

\* getMediaInfo returned m: the adapter builds its record.  The Helius adapter
\* returns null when there is no media info.
SolReturn(m) ==
    /\ pc' = "done"
    /\ mediaInfo' = m
    /\ IF mode = "helius" /\ IsNullMedia(m)
       THEN outcome' = "null" /\ collectible' = NoCollectible
       ELSE outcome' = "collectible" /\ collectible' = SolCollectible(m)

\* One strategy of the chain (a || b || ...): its result when there is one,
\* else the next strategy.
Strategy(here, m, next) ==
    /\ mode \in {"metaplex", "helius"} /\ pc = here
    /\ IF IsNullMedia(m)
       THEN pc' = next /\ UNCHANGED << mediaInfo, outcome, collectible >>
       ELSE SolReturn(m)
    /\ UNCHANGED << mode, branch, request, nreq, timer, remote, res, nft >>
    /\ UNCHANGED notSol

MetaplexStart ==
    /\ mode = "metaplex" /\ pc = "start"
    /\ pc' = "gif"
    /\ UNCHANGED << mode, branch, request, nreq, timer, remote, res, outcome,
                    collectible, nft, mediaInfo >>
    /\ UNCHANGED notSol

\* heliusNFTToCollectible up to fetch(nft.content.json_uri): no timer is set
HeliusStart ==
    /\ mode = "helius" /\ pc = "start"
    /\ pc' = "json"
    /\ nreq' = nreq + 1
    /\ UNCHANGED << mode, branch, request, timer, remote, res, outcome,
                    collectible, nft, mediaInfo >>
    /\ UNCHANGED notSol

\* The JSON metadata arrives: any Metaplex record.
HeliusJsonResolves ==
    /\ mode = "helius" /\ pc = "json"
    /\ \E m \in MetaplexNFTs :
        /\ run = 2 => m = firstRun.nft
        /\ nft' = m
    /\ pc' = "gif"
    /\ UNCHANGED << mode, branch, request, nreq, timer, remote, res, outcome,
                    collectible, mediaInfo >>
    /\ UNCHANGED notSol

\* fetch or json() rejects: getMetaplexMetadataFromHeliusNFT returns null,
\* and heliusNFTToCollectible returns null.
HeliusJsonFails ==
    /\ mode = "helius" /\ pc = "json"
    /\ run = 2 => firstRun.jsonFailed
    /\ pc' = "done"
    /\ outcome' = "null"
    /\ UNCHANGED << mode, branch, request, nreq, timer, remote, res,
                    collectible, nft, mediaInfo >>
    /\ UNCHANGED notSol

StrategyGif == Strategy("gif", metaplexNftGif(nft), "threeD")

StrategyThreeD == Strategy("threeD", metaplexNftThreeDWithFrame(nft), "video")

StrategyVideo == Strategy("video", metaplexNftVideo(nft), "image")

StrategyImage == Strategy("image", metaplexNftImage(nft), "computed")

\* metaplexNftComputedMedia up to its await: null without files, else a HEAD
\* probe of the first file.
StrategyComputed ==
    /\ mode \in {"metaplex", "helius"} /\ pc = "computed"
    /\ IF Len(nft.files) = 0
       THEN /\ SolReturn(NullMedia)
            /\ UNCHANGED << branch, request, nreq, timer >>
       ELSE /\ pc' = "fetch"
            /\ branch' = "computed"
            /\ request' = [url |-> FileUrl(nft.files[1]), method |-> "HEAD"]
            /\ nreq' = nreq + 1
            /\ timer' = "armed"
            /\ UNCHANGED << mediaInfo, outcome, collectible >>
    /\ UNCHANGED << mode, remote, res, nft >>
    /\ UNCHANGED notSol

SolFetchResolves ==
    /\ mode \in {"metaplex", "helius"} /\ pc = "fetch"
    /\ \E x \in Responses(request.method) :
        /\ x.content \in ContentsOf(x.r.contentType)
        /\ ReplaysResponse(x.r, x.content)
        /\ res' = x.r
        /\ remote' = x.content
        /\ timer' = "cleared"
        /\ SolReturn(metaplexNftComputedMedia(nft, x.r))
    /\ UNCHANGED << mode, branch, request, nreq, nft >>
    /\ UNCHANGED notSol

\* fetch rejects: getMediaInfo's catch returns null
SolFetchRejects ==
    /\ mode \in {"metaplex", "helius"} /\ pc = "fetch"
    /\ Replays("armed")
    /\ SolReturn(NullMedia)
    /\ UNCHANGED << mode, branch, request, nreq, timer, remote, res, nft >>
    /\ UNCHANGED notSol

SolFetchTimesOut ==
    /\ mode \in {"metaplex", "helius"} /\ pc = "fetch"
    /\ timer = "armed"
    /\ Replays("fired")
    /\ timer' = "fired"
    /\ SolReturn(NullMedia)
    /\ UNCHANGED << mode, branch, request, nreq, remote, res, nft >>
    /\ UNCHANGED notSol

\* starAtlasNFTToCollectible; solanaNFTToCollectible's catch returns null
StarAtlas ==
    /\ mode = "staratlas" /\ pc = "start"
    /\ pc' = "done"
    /\ IF starAtlasThrows(nft)
       THEN outcome' = "null" /\ collectible' = NoCollectible
       ELSE outcome' = "collectible" /\ collectible' = starAtlasNFTToCollectible(nft)
    /\ UNCHANGED << mode, branch, request, nreq, timer, remote, res, nft, mediaInfo >>
    /\ UNCHANGED notSol

SolNext ==
    \/ MetaplexStart
    \/ HeliusStart
    \/ HeliusJsonResolves
    \/ HeliusJsonFails
    \/ StrategyGif
    \/ StrategyThreeD
    \/ StrategyVideo
    \/ StrategyImage
    \/ StrategyComputed
    \/ SolFetchResolves
    \/ SolFetchRejects
    \/ SolFetchTimesOut
    \/ StarAtlas

----------------------------------------------------------------------------
(* A second resolution of the same record *)

NoFirst ==
    [ outcome |-> "pending", collectible |-> NoCollectible, nreq |-> 0,
      timer |-> "unset", res |-> NoResponse, remote |-> <<>>,
      bodyRead |-> FALSE, nft |-> NoNft, jsonFailed |-> FALSE ]

\* The caller resolves the record again.  The call starts as the first did:
\* the let-variables and the record under construction are declared in the
\* function, fetchWithTimeout makes a controller and a timer of its own, and
\* the module keeps nothing but constants.
Again ==
    /\ mode \in {"eth", "metaplex", "helius", "staratlas"}
    /\ pc = "done" /\ run = 1
    /\ run' = 2
    /\ firstRun' = [ outcome |-> outcome, collectible |-> collectible, nreq |-> nreq,
                  timer |-> timer, res |-> res, remote |-> remote,
                  bodyRead |-> locals.ab # Undefined, nft |-> nft,
                  jsonFailed |-> mode = "helius" /\ nreq = 1 /\ nft = NoNft ]
    /\ pc' = "start"
    /\ branch' = "none"
    /\ locals' = InitLocals
    /\ request' = NoRequest
    /\ nreq' = 0
    /\ timer' = "unset"
    /\ remote' = <<>>
    /\ res' = NoResponse
    /\ outcome' = "pending"
    /\ collectible' = NoCollectible
    /\ mediaInfo' = NullMedia
    /\ nft' = IF mode = "helius" THEN NoNft ELSE nft
    /\ UNCHANGED << mode, asset, hnft, blocklist, valid, rawUrl, gatewayUrl >>

----------------------------------------------------------------------------
(* The pure functions, applied to one input *)

CheckBlocklist ==
    /\ mode = "blocklist" /\ pc = "start"
    /\ pc' = "done"
    /\ valid' = IF isHeliusNFTValid(hnft, blocklist) THEN "true" ELSE "false"
    /\ UNCHANGED << mode, branch, asset, locals, request, nreq, timer, remote,
                    res, outcome, collectible, nft, mediaInfo, hnft, blocklist,
                    rawUrl, gatewayUrl, run, firstRun >>

RewriteIpfs ==
    /\ mode = "rewrite" /\ pc = "start"
    /\ StartsWith(rawUrl, ipfsProtocolPrefix)
    /\ pc' = "done"
    /\ gatewayUrl' = getIpfsMetadataUrl(rawUrl)
    /\ UNCHANGED << mode, branch, asset, locals, request, nreq, timer, remote,
                    res, outcome, collectible, nft, mediaInfo, hnft, blocklist,
                    valid, rawUrl, run, firstRun >>

RewriteArweave ==
    /\ mode = "rewrite" /\ pc = "start"
    /\ StartsWith(rawUrl, arweavePrefix)
    /\ pc' = "done"
    /\ gatewayUrl' = getArweaveMetadataUrl(rawUrl)
    /\ UNCHANGED << mode, branch, asset, locals, request, nreq, timer, remote,
                    res, outcome, collectible, nft, mediaInfo, hnft, blocklist,
                    valid, rawUrl, run, firstRun >>

----------------------------------------------------------------------------
(* The specification *)

\* One exported function is run, on one input.
Idle ==
    /\ pc = "start"
    /\ branch = "none"
    /\ locals = InitLocals
    /\ request = NoRequest
    /\ nreq = 0
    /\ timer = "unset"
    /\ remote = <<>>
    /\ res = NoResponse
    /\ outcome = "pending"
    /\ collectible = NoCollectible
    /\ mediaInfo = NullMedia
    /\ valid = "pending"
    /\ gatewayUrl = Undefined
    /\ run = 1
    /\ firstRun = NoFirst

InitEth ==
    /\ mode = "eth"
    /\ asset \in Assets
    /\ nft = NoNft /\ hnft = NoHeliusNft /\ blocklist = NoBlocklist
    /\ rawUrl = Undefined
    /\ Idle

InitMetaplex ==
    /\ mode = "metaplex"
    /\ nft \in MetaplexNFTs
    /\ asset = NoAsset /\ hnft = NoHeliusNft /\ blocklist = NoBlocklist
    /\ rawUrl = Undefined
    /\ Idle

InitHelius ==
    /\ mode = "helius"
    /\ nft = NoNft
    /\ asset = NoAsset /\ hnft = NoHeliusNft /\ blocklist = NoBlocklist
    /\ rawUrl = Undefined
    /\ Idle

InitStarAtlas ==
    /\ mode = "staratlas"
    /\ nft \in StarAtlasNFTs
    /\ asset = NoAsset /\ hnft = NoHeliusNft /\ blocklist = NoBlocklist
    /\ rawUrl = Undefined
    /\ Idle

InitBlocklist ==
    /\ mode = "blocklist"
    /\ hnft \in HeliusNFTs
    /\ blocklist \in Blocklists
    /\ asset = NoAsset /\ nft = NoNft
    /\ rawUrl = Undefined
    /\ Idle

InitRewrite ==
    /\ mode = "rewrite"
    /\ rawUrl \in GatewayInputs
    /\ asset = NoAsset /\ nft = NoNft /\ hnft = NoHeliusNft /\ blocklist = NoBlocklist
    /\ Idle

Init ==
    \/ InitEth
    \/ InitMetaplex
    \/ InitHelius
    \/ InitStarAtlas
    \/ InitBlocklist
    \/ InitRewrite

Next ==
    \/ EthNext
    \/ SolNext
    \/ CheckBlocklist
    \/ RewriteIpfs
    \/ RewriteArweave
    \/ Again

Spec == Init /\ [][Next]_vars

\* The same runs on the simpler inputs: a record with an image and an
\* animation_url, at most one file, no collection group.
FairInit ==
    /\ Init
    /\ mode = "eth" =>
           /\ asset.collection = Undefined
           /\ \A f \in UrlFields \ {"image", "animation_url"} : asset[f] = Undefined
    /\ mode = "metaplex" => nft.category = Undefined /\ Len(nft.files) <= 1
    /\ mode = "blocklist" => hnft.grouping = <<>>

\* The steps that are the program's own code running between two awaits.
LocalStep ==
    \/ AssetGif \/ AssetThreeD \/ AssetVideo
    \/ AssetIpfs \/ AssetArweave \/ AssetRaw
    \/ MetaplexStart \/ HeliusStart
    \/ StrategyGif \/ StrategyThreeD \/ StrategyVideo \/ StrategyImage
    \/ StrategyComputed
    \/ StarAtlas \/ CheckBlocklist \/ RewriteIpfs \/ RewriteArweave

\* The callback of setTimeout in fetchWithTimeout.
TimerFires == EthFetchTimesOut \/ SolFetchTimesOut

\* The runtime runs the code that is ready to run, and a timer that was set
\* and not cleared fires.  Nothing makes a server answer.
FairSpec == FairInit /\ [][Next]_vars /\ WF_vars(LocalStep) /\ WF_vars(TimerFires)

----------------------------------------------------------------------------
(* The properties *)

\* The run ended and its promise resolved to a Collectible.
Returned == pc = "done" /\ outcome = "collectible"

Populated(v) == ~IsNullish(v)

MediaTypes == {"IMAGE", "VIDEO", "GIF", "THREE_D", "ANIMATED_WEBP"}

\* An Ethereum record whose only image-like URLs end in '.gif'.
OnlyGifAsset(a) ==
    /\ \E i \in 1..5 : Truthy(imageUrlsOf(a)[i])
    /\ \A i \in 1..5 : Truthy(imageUrlsOf(a)[i]) => EndsWith(imageUrlsOf(a)[i], DotGif)
    /\ ~Truthy(a.animation_url) /\ ~Truthy(a.animation_original_url)

\* A Metaplex record whose only URL is an image URL ending in '.gif'.
OnlyGifNft(n) ==
    /\ OptEndsWith(n.image, DotGif)
    /\ n.animation_url = Undefined
    /\ n.files = <<>>

HasGifFile(n) == \E i \in 1..Len(n.files) : IsGifFile(n.files[i])

ThreeDAssetWithImage(a) ==
    /\ \E u \in {a.animation_url, a.animation_original_url} : Is3DUrl(u)
    /\ \E i \in 1..5 :
           Truthy(imageUrlsOf(a)[i]) /\ ~SomeExt(SUPPORTED_3D_EXTENSIONS, imageUrlsOf(a)[i])

\* The same of a Metaplex record.
ThreeDNftWithImage(n) ==
    /\ \/ Is3DUrl(n.animation_url)
       \/ \E i \in 1..Len(n.files) : Is3DUrl(FileUrl(n.files[i]))
    /\ Truthy(n.image) /\ ~SomeExt(SUPPORTED_3D_EXTENSIONS, n.image)

\* C2, as the spec states it: such a record resolves to THREE_D with a
\* non-null frameUrl, whatever the frame probe does.
C2_ThreeDAlwaysHasFrame ==
    (Returned /\ \/ mode = "eth" /\ ThreeDAssetWithImage(asset)
                 \/ mode \in {"metaplex", "helius"} /\ ThreeDNftWithImage(nft)) =>
        collectible.mediaType = "THREE_D" /\ Populated(collectible.frameUrl)

\* C2, amended.  assetToCollectible, on a record with no image URL ending in
\* '.gif', a URL ending in 'glb' or 'gltf' and an image URL that ends in no
\* 3D, video or audio extension, probes that image URL; when the probe's
\* content type does not contain 'gif' the result is THREE_D with frameUrl that
\* image URL; when it does, mediaType stays THREE_D, frameUrl is null and
\* gifUrl is the image URL; when the probe rejects or times out the result is
\* the placeholder IMAGE.  The Metaplex chain, on a record with no file of
\* type 'image/gif', an animation_url ending in 'glb' and a non-empty image
\* that does not end in 'glb', yields THREE_D with frameUrl = image, and issues
\* no probe.
C2_ThreeDFrameByProbe ==
    Returned =>
        /\ (mode = "eth" /\ ~isAssetGif(asset) /\ isAssetThreeDAndIncludesImage(asset)) =>
               LET frame == Find(imageUrlsOf(asset), IsPlainImageUrl)
               IN  /\ nreq = 1 /\ request.url = frame
                   /\ (timer = "cleared" /\ ~ContentTypeIncludes(res, S_gif)) =>
                          /\ collectible.mediaType = "THREE_D"
                          /\ collectible.frameUrl = frame /\ Populated(frame)
                          /\ Is3DUrl(collectible.threeDUrl)
                   /\ (timer = "cleared" /\ ContentTypeIncludes(res, S_gif)) =>
                          /\ collectible.mediaType = "THREE_D"
                          /\ collectible.frameUrl = Null
                          /\ collectible.gifUrl = frame
                   /\ timer # "cleared" =>
                          /\ collectible.mediaType = "IMAGE"
                          /\ collectible.frameUrl = placeholderCoverArt
        /\ ( /\ mode \in {"metaplex", "helius"}
             /\ ~HasGifFile(nft)
             /\ OptEndsWith(nft.animation_url, S_glb)
             /\ Truthy(nft.image) /\ ~EndsWith(nft.image, S_glb) ) =>
               /\ collectible.mediaType = "THREE_D"
               /\ collectible.frameUrl = nft.image
               /\ collectible.threeDUrl = nft.animation_url
               /\ nreq = IF mode = "helius" THEN 1 ELSE 0

C2_Witness ==
    /\ Returned /\ mode = "eth" /\ ThreeDAssetWithImage(asset)
    /\ timer = "cleared" /\ ~ContentTypeIncludes(res, S_gif)
    /\ collectible.mediaType = "THREE_D"
    /\ collectible.frameUrl = U_png

\* C3: a probe that exceeds its timeout ends the resolution with an IMAGE
\* record whose imageUrl and frameUrl are both the placeholder, in every
\* branch that probes.  (That no exception escapes is C8.)
C3_TimeoutYieldsPlaceholder ==
    (pc = "done" /\ timer = "fired" /\ outcome # "thrown") =>
        /\ outcome = "collectible"
        /\ collectible.mediaType = "IMAGE"
        /\ collectible.imageUrl = placeholderCoverArt
        /\ collectible.frameUrl = placeholderCoverArt

\* Containment that ignores case, stated position by position.
ContainsIgnoringCase(value, entry) ==
    /\ Populated(value)
    /\ \E i \in 0..(Len(value) - Len(entry)) :
           \A k \in 1..Len(entry) : LowerChar(value[i + k]) = LowerChar(entry[k])

Range(f) == { f[i] : i \in DOMAIN f }

\* The five checks of the blocklist, each on its own.
UrlCheck(n, bl) ==
    \E e \in Range(bl.blocklist) \cup Range(audiusBlocklistUrls) :
        ContainsIgnoringCase(n.external_url, e)

IdCheck(n, bl) == n.id \in Range(bl.nftBlocklist)

NameCheck(n, bl) ==
    \E e \in Range(bl.nameContains) \cup Range(audiusBlocklistNames) :
        ContainsIgnoringCase(n.name, e)

CollectionCheck(n, bl) ==
    \E g \in Range(n.grouping) :
        \E e \in Range(bl.nameContains) \cup Range(audiusBlocklistNames) :
            ContainsIgnoringCase(g, e)

SymbolCheck(n, bl) ==
    \E e \in Range(bl.symbolContains) : ContainsIgnoringCase(n.symbol, e)

C5_WebpByAnmfMarker ==
    ( /\ Returned /\ mode = "eth" /\ branch \in ProbingBranches
      /\ res.status < 300 /\ ContentTypeIncludes(res, S_webp)
      /\ locals.ab # Undefined ) =>
        collectible.mediaType = IF Includes(remote, ANMF) THEN "ANIMATED_WEBP" ELSE "IMAGE"

\* The rewrite as the spec states it: the 'ipfs/' segment is dropped only
\* where it directly follows the scheme prefix.
StatedRewrite(u) ==
    IF StartsWith(u, ipfsProtocolPrefix)
    THEN LET x == Substring(u, Len(ipfsProtocolPrefix))
         IN  IpfsGateway \o (IF StartsWith(x, IpfsSegment)
                             THEN Substring(x, Len(IpfsSegment)) ELSE x)
    ELSE IF StartsWith(u, arweavePrefix)
    THEN ArweaveGateway \o Substring(u, Len(arweavePrefix))
    ELSE u

\* C6: the gateway rewrite maps 'ipfs://' + X to the gateway URL of X less a
\* leading 'ipfs/' segment, the rest of the path kept, and 'ar://' + Y to
\* 'https://arweave.net/' + Y.
C6_RewriteStripsLeadingSegmentOnly ==
    (mode = "rewrite" /\ pc = "done") => gatewayUrl = StatedRewrite(rawUrl)

\* The strings among the seven URL fields of an asset.
InputUrls(a) == { u \in Range(mediaUrlsOf(a)) : Populated(u) }

\* What a URL field may become: itself, or its gateway URL when it uses a
\* distributed-storage scheme.
PassedOrRewritten(u) ==
    {u} \cup (IF StartsWith(u, ipfsProtocolPrefix) THEN {getIpfsMetadataUrl(u)} ELSE {})
        \cup (IF StartsWith(u, arweavePrefix) THEN {getArweaveMetadataUrl(u)} ELSE {})

OutputUrls(c) ==
    { u \in {c.imageUrl, c.videoUrl, c.gifUrl, c.threeDUrl, c.frameUrl} : Populated(u) }

\* C7: a URL without a distributed-storage scheme passes through unchanged:
\* every URL of the output is the placeholder, an input field, or the gateway
\* URL of an input field that uses such a scheme.
C7_OtherUrlsPassThrough ==
    (Returned /\ mode = "eth") =>
        \A u \in OutputUrls(collectible) :
            \/ u = placeholderCoverArt
            \/ \E f \in InputUrls(asset) : u \in PassedOrRewritten(f)

\* C8: assetToCollectible never throws.
C8_AssetToCollectibleNeverThrows ==
    mode = "eth" => outcome # "thrown"

\* C9: the mediaType of every returned Collectible is one of the five values.
C9_MediaTypeIsEnumerated ==
    Returned => collectible.mediaType \in MediaTypes

\* The URL field that goes with a media type.
FieldFor(c, type) ==
    CASE type = "IMAGE" -> c.imageUrl
      [] type = "VIDEO" -> c.videoUrl
      [] type \in {"GIF", "ANIMATED_WEBP"} -> c.gifUrl
      [] type = "THREE_D" -> c.threeDUrl
      [] OTHER -> Undefined

\* C10: exactly one of imageUrl, videoUrl, gifUrl, threeDUrl is populated, the
\* one that goes with mediaType.
C10_OneMediaUrlMatchingType ==
    Returned =>
        /\ Populated(FieldFor(collectible, collectible.mediaType))
        /\ Cardinality({ f \in {"imageUrl", "videoUrl", "gifUrl", "threeDUrl"} :
                           Populated(collectible[f]) }) = 1

\* A URL that still uses a distributed-storage scheme.
IsRawProtocolUrl(u) ==
    Populated(u) /\ (StartsWith(u, ipfsProtocolPrefix) \/ StartsWith(u, arweavePrefix))

\* C11: no URL field of a returned Collectible starts with 'ipfs://' or
\* 'ar://': what used such a scheme has been rewritten to its gateway URL.
C11_NoRawProtocolUrlInOutput ==
    Returned =>
        \A u \in {collectible.imageUrl, collectible.videoUrl, collectible.gifUrl,
                  collectible.threeDUrl, collectible.frameUrl} :
            ~IsRawProtocolUrl(u)

\* C13: a VIDEO record with a frameUrl has had that frame probed, and the
\* probe reported neither video nor gif content.
C13_VideoFrameWasProbed ==
    (Returned /\ collectible.mediaType = "VIDEO" /\ Populated(collectible.frameUrl)) =>
        /\ request.method = "HEAD" /\ request.url = collectible.frameUrl
        /\ timer = "cleared"
        /\ ~ContentTypeIncludes(res, S_video)
        /\ ~ContentTypeIncludes(res, S_gif)

\* C14: in the 3D branch of assetToCollectible, a frame that the probe reports
\* as gif reclassifies the record: GIF, gifUrl the frame, frameUrl null, and
\* no threeDUrl.
C14_GifFrameReclassifies ==
    ( /\ Returned /\ mode = "eth" /\ branch = "threeD"
      /\ timer = "cleared" /\ ContentTypeIncludes(res, S_gif) ) =>
        /\ collectible.mediaType = "GIF"
        /\ collectible.gifUrl = request.url
        /\ collectible.frameUrl = Null
        /\ ~Populated(collectible.threeDUrl)

\* C16: a classification probe answered with a status >= 300 is a failure
\* whatever its content type: the placeholder IMAGE in the ipfs, arweave and
\* raw branches of assetToCollectible, and no descriptor from
\* metaplexNftComputedMedia.
C16_FailureStatusYieldsPlaceholder ==
    (pc = "done" /\ timer = "cleared" /\ res.status >= 300) =>
        /\ (mode = "eth" /\ branch \in ProbingBranches /\ outcome = "collectible") =>
               /\ collectible.mediaType = "IMAGE"
               /\ collectible.imageUrl = placeholderCoverArt
               /\ collectible.frameUrl = placeholderCoverArt
               /\ collectible.videoUrl = Null
               /\ collectible.gifUrl = Null
               /\ collectible.threeDUrl = Null
        /\ (mode \in {"metaplex", "helius"}) => IsNullMedia(mediaInfo)

\* The gateway URL of a URL that uses a distributed-storage scheme.
GatewayOf(u) ==
    IF StartsWith(u, ipfsProtocolPrefix) THEN getIpfsMetadataUrl(u)
    ELSE getArweaveMetadataUrl(u)

\* C18: hasAudio is true only if the record has an ipfs:// or ar:// URL whose
\* gateway probe succeeded with an audio content type and was classified
\* neither gif, video nor animated WebP; then mediaType is IMAGE and
\* animationUrl is the probed gateway URL.  Otherwise hasAudio is false and
\* animationUrl is the record's animation_url, or null when it has none.
C18_HasAudioOnlyBehindProtocolProbe ==
    (Returned /\ mode = "eth") =>
        /\ collectible.hasAudio \in {JsBool(TRUE), JsBool(FALSE)}
        /\ collectible.hasAudio = JsBool(TRUE) =>
               /\ \E u \in InputUrls(asset) :
                      IsRawProtocolUrl(u) /\ request.url = GatewayOf(u)
               /\ timer = "cleared"
               /\ res.status < 300
               /\ ContentTypeIncludes(res, S_audio)
               /\ ~ContentTypeIncludes(res, S_gif)
               /\ ~ContentTypeIncludes(res, S_video)
               /\ ~(ContentTypeIncludes(res, S_webp) /\ Includes(res.body, ANMF))
               /\ collectible.mediaType = "IMAGE"
               /\ collectible.animationUrl = request.url
        /\ collectible.hasAudio = JsBool(FALSE) =>
               collectible.animationUrl = Coalesce(asset.animation_url, Null)

\* An audio file behind an ipfs:// animation_url, next to a plain image.
C18_Witness ==
    /\ Returned /\ mode = "eth"
    /\ collectible.hasAudio = JsBool(TRUE)
    /\ asset.animation_url = U_ipfs /\ asset.image = U_png
    /\ collectible.animationUrl = IpfsGateway \o <<"Q","m","/","x">>
    /\ collectible.imageUrl = U_png

\* What the four strategies without a probe give a Metaplex record, taken in
\* order: the first result that is not null, or null.
FirstStaticMedia(n) ==
    IF ~IsNullMedia(metaplexNftGif(n)) THEN metaplexNftGif(n)
    ELSE IF ~IsNullMedia(metaplexNftThreeDWithFrame(n)) THEN metaplexNftThreeDWithFrame(n)
    ELSE IF ~IsNullMedia(metaplexNftVideo(n)) THEN metaplexNftVideo(n)
    ELSE metaplexNftImage(n)

\* The strategies that precede a position of the Metaplex chain.
EarlierStrategies(n, at) ==
    CASE at = "threeD" -> << metaplexNftGif(n) >>
      [] at = "video" -> << metaplexNftGif(n), metaplexNftThreeDWithFrame(n) >>
      [] at = "image" -> << metaplexNftGif(n), metaplexNftThreeDWithFrame(n),
                            metaplexNftVideo(n) >>
      [] at \in {"computed", "fetch"} ->
             << metaplexNftGif(n), metaplexNftThreeDWithFrame(n),
                metaplexNftVideo(n), metaplexNftImage(n) >>
      [] OTHER -> << >>

\* The branch of assetToCollectible whose await a record reaches, by the
\* order of the chain: "none" when the record is decided without a request.
BranchInOrder(a) ==
    IF isAssetGif(a) THEN "none"
    ELSE IF isAssetThreeDAndIncludesImage(a) THEN "threeD"
    ELSE IF isAssetVideo(a)
    THEN (IF \E i \in 1..5 : IsPlainImageUrl(imageUrlsOf(a)[i]) THEN "video" ELSE "none")
    ELSE IF \E i \in 1..7 : IsIpfsUrl(protocolUrlsOf(a)[i]) THEN "ipfs"
    ELSE IF \E i \in 1..7 : IsArweaveUrl(protocolUrlsOf(a)[i]) THEN "arweave"
    ELSE "raw"

C15_Order ==
    /\ mode \in {"metaplex", "helius"} =>
           /\ \A i \in 1..Len(EarlierStrategies(nft, pc)) :
                  IsNullMedia(EarlierStrategies(nft, pc)[i])
           /\ (pc = "done" /\ ~IsNullMedia(FirstStaticMedia(nft))) =>
                  /\ mediaInfo = FirstStaticMedia(nft)
                  /\ timer = "unset"
                  /\ nreq = IF mode = "helius" THEN 1 ELSE 0
           /\ timer # "unset" => IsNullMedia(FirstStaticMedia(nft))
    /\ (mode = "eth" /\ pc # "start") =>
           /\ branch = BranchInOrder(asset)
           /\ nreq = IF branch = "none" THEN 0 ELSE 1
           /\ (isAssetGif(asset) /\ outcome = "collectible") =>
                  collectible.mediaType = "GIF"
    /\ nreq <= 2

\* A request is issued only when no other request of the record is pending.
C15_OneAtATime ==
    (nreq' # nreq /\ run' = run) =>
        (nreq' = nreq + 1 /\ pc \notin {"fetch", "body", "json"})

\* C15, amended.  The Metaplex chain is evaluated in the order GIF, 3D with
\* frame, video, image, then probe: the first strategy that applies decides
\* the result, no later one is evaluated, and the probe is issued only when
\* the four others do not apply.  assetToCollectible has no image strategy:
\* its order is GIF, 3D with frame, video, then the ipfs probe, the arweave
\* probe, the raw probe, so every record that is neither GIF, 3D nor video is
\* probed, a direct image field or not.  A record costs at most one request
\* (two for a Helius record, the JSON fetch first), issued one after the other.
C15_StrategiesInOrder == [](C15_Order) /\ [][C15_OneAtATime]_vars

\* C15, as the spec states it: besides the order, a classification probe is
\* issued only for a record to which the image strategy does not apply
\* either (no direct image field).
C15_ProbeOnlyWithoutImage ==
    /\ [](C15_Order)
    /\ []((mode = "eth" /\ pc # "start" /\ branch \in ProbingBranches) =>
              ~isAssetImage(asset))
    /\ [][C15_OneAtATime]_vars

\* A Helius record decided by the probe: the JSON fetch, then the probe.
C15_Witness ==
    /\ mode = "helius" /\ Returned
    /\ nreq = 2 /\ timer = "cleared"
    /\ IsNullMedia(FirstStaticMedia(nft))
    /\ collectible.mediaType = "VIDEO"

\* A network operation of the resolution is in flight.
Pending == pc \in {"fetch", "body", "json"}

\* C17: every network operation is bounded by the timeout: a resolution that
\* waits for the network eventually completes, also while a response body is
\* read and while the Helius adapter fetches the JSON metadata; and the timer
\* of fetchWithTimeout is cleared whenever the fetch settles, by a response or
\* by a rejection.
C17_EveryOperationBounded ==
    /\ [](Pending => <>(pc = "done"))
    /\ [](pc = "done" => timer # "armed")

=============================================================================
